---------------------------- MODULE Spec2Model ----------------------------
(***************************************************************************)
(* Model of the comment core of obsidian-comments (src/main.ts):           *)
(*   CommentPlugin.findComments   - regex driven, recursive extraction     *)
(*   CommentView.setComments      - reconciliation of childrenHidden       *)
(*   CommentView.removeComment    - line splice of a comment block         *)
(* Texts are sequences of one-character strings; offsets into a text are   *)
(* 0-based as in the TypeScript source, TLA+ sequence indices are 1-based. *)
(***************************************************************************)
EXTENDS Integers, Sequences, FiniteSets, TLC

VARIABLES
    doc,        \* description of the text the behaviour starts from
    extracted,  \* SpecExtract: what findComments returned (Undefined before the call)
    vault,      \* Spec: file path -> current text of the file
    comments,   \* Spec: CommentView.comments, file name -> stored tree
    shown,      \* Spec: the file name whose tree commentsEl renders
    mods,       \* Spec: the kinds of modification the view has not parsed yet
    replaced,   \* Spec: the tree the last handler, if it wrote a whole tree, replaced
    reads       \* SpecAsync: the calls of updateComments since the view was idle

vars == <<doc, extracted, vault, comments, shown, mods, replaced, reads>>

\* An optional value (T | undefined) is the empty sequence or a one-element one
Undefined == <<>>
Defined(x) == <<x>>

(***************************************************************************)
(* Characters and JavaScript string primitives                             *)
(***************************************************************************)
NL == "\n"
SP == " "
GT == ">"

\* String.prototype.slice(a, b) with 0 <= a, b
Slice(s, a, b) == SubSeq(s, a + 1, b)

SliceFrom(s, a) == SubSeq(s, a + 1, Len(s))

MinOf(S) == CHOOSE x \in S : \A y \in S : x <= y

\* true iff pat occurs in s at 0-based offset i
OccursAt(s, pat, i) ==
    /\ i + Len(pat) <= Len(s)
    /\ \A k \in 1..Len(pat) : s[i + k] = pat[k]

\* String.prototype.indexOf(pat): first 0-based offset, -1 when absent
IndexOf(s, pat) ==
    LET hits == {i \in 0..(Len(s) - Len(pat)) : OccursAt(s, pat, i)}
    IN  IF hits = {} THEN -1 ELSE MinOf(hits)

Includes(s, pat) == IndexOf(s, pat) >= 0

\* String.prototype.trim(): the texts of the model hold no white space but " "
\* inside a line
IsSpace(c) == c = SP \/ c = NL

Trim(s) ==
    LET keep == {i \in 1..Len(s) : ~IsSpace(s[i])}
    IN  IF keep = {} THEN <<>>
        ELSE SubSeq(s, MinOf(keep), CHOOSE x \in keep : \A y \in keep : y <= x)

\* 0-based offset of the first line break at or after offset i, Len(s) if none
EolFrom(s, i) ==
    LET nls == {j \in i..(Len(s) - 1) : s[j + 1] = NL}
    IN  IF nls = {} THEN Len(s) ELSE MinOf(nls)

\* String.prototype.split('\n')
RECURSIVE SplitFrom(_, _)
SplitFrom(s, i) ==
    LET e == EolFrom(s, i)
    IN  IF e = Len(s) THEN <<Slice(s, i, e)>>
        ELSE <<Slice(s, i, e)>> \o SplitFrom(s, e + 1)

Split(s) == SplitFrom(s, 0)

\* Array.prototype.join('\n')
RECURSIVE Join(_)
Join(ls) ==
    IF Len(ls) = 0 THEN <<>>
    ELSE IF Len(ls) = 1 THEN ls[1]
    ELSE ls[1] \o <<NL>> \o Join(Tail(ls))

\* s.match(/\n/g)?.length : number of line breaks, Undefined when there is none
CountNL(s) == Cardinality({i \in 1..Len(s) : s[i] = NL})


(***************************************************************************)
(* The marker pattern  /> \[!comment\] (.+?)\n((?:> *.*\n?)+)/gi           *)
(***************************************************************************)
CommentHeader == <<">", " ", "[", "!", "c", "o", "m", "m", "e", "n", "t", "]", " ">>

\* the i flag: letters compare without case
Lower(c) ==
    CASE c = "C" -> "c" [] c = "O" -> "o" [] c = "M" -> "m"
      [] c = "E" -> "e" [] c = "N" -> "n" [] c = "T" -> "t"
      [] OTHER -> c

HeaderAt(s, i) ==
    /\ i + Len(CommentHeader) <= Len(s)
    /\ \A k \in 1..Len(CommentHeader) : Lower(s[i + k]) = CommentHeader[k]

\* (?:> *.*\n?)+ from offset p on: every iteration takes one whole line that
\* starts with ">" and the line break after it, when there is one
RECURSIVE BlockEnd(_, _)
BlockEnd(s, p) ==
    IF p < Len(s) /\ s[p + 1] = GT
    THEN LET e == EolFrom(s, p)
         IN  IF e = Len(s) THEN e ELSE BlockEnd(s, e + 1)
    ELSE p

\* the pattern matches at offset i: the header literal, one or more characters
\* of the header line, a line break, and a next line that starts with ">"
MatchesAt(s, i) ==
    /\ HeaderAt(s, i)
    /\ LET ns == i + Len(CommentHeader)
           nl == EolFrom(s, ns)
       IN  /\ nl > ns
           /\ nl + 1 < Len(s)
           /\ s[nl + 2] = GT

\* the match object: match.index, match[1], match[2], index + match[0].length
MatchAt(s, i) ==
    LET ns == i + Len(CommentHeader)
        nl == EolFrom(s, ns)
        e  == BlockEnd(s, nl + 1)
    IN  [index |-> i, g1 |-> Slice(s, ns, nl), g2 |-> Slice(s, nl + 1, e), end |-> e]

\* fileContent.matchAll(regex): leftmost matches, each search resuming at the
\* end of the previous match
RECURSIVE MatchAllFrom(_, _)
MatchAllFrom(s, from) ==
    LET hits == {i \in from..(Len(s) - Len(CommentHeader)) : MatchesAt(s, i)}
    IN  IF hits = {} THEN <<>>
        ELSE LET m == MatchAt(s, MinOf(hits))
             IN  <<m>> \o MatchAllFrom(s, m.end)

MatchAll(s) == MatchAllFrom(s, 0)

(***************************************************************************)
(* Numbers and Date                                                        *)
(***************************************************************************)
Digits == <<"0", "1", "2", "3", "4", "5", "6", "7", "8", "9">>

IsDigit(c) == \E k \in 1..Len(Digits) : Digits[k] = c

DigitVal(c) == (CHOOSE k \in 1..Len(Digits) : Digits[k] = c) - 1

AllDigits(s, a, b) == b <= Len(s) /\ \A k \in (a + 1)..b : IsDigit(s[k])

\* Number("07") and parseInt("07") of a string of decimal digits
RECURSIVE ParseInt(_)
ParseInt(s) ==
    IF Len(s) = 0 THEN 0
    ELSE 10 * ParseInt(SubSeq(s, 1, Len(s) - 1)) + DigitVal(s[Len(s)])

IsLeap(y) == (y % 4 = 0 /\ y % 100 # 0) \/ y % 400 = 0

\* days of month m (0-based, as Date counts months) of year y
DaysInMonth(y, m) ==
    IF m = 1 THEN (IF IsLeap(y) THEN 29 ELSE 28)
    ELSE IF m \in {3, 5, 8, 10} THEN 30 ELSE 31

\* a day number outside the month carries into the neighbouring months
RECURSIVE NormDay(_, _, _, _, _)
NormDay(y, m, d, h, mi) ==
    IF d < 1
    THEN LET py == IF m = 0 THEN y - 1 ELSE y
             pm == IF m = 0 THEN 11 ELSE m - 1
         IN  NormDay(py, pm, d + DaysInMonth(py, pm), h, mi)
    ELSE IF d > DaysInMonth(y, m)
    THEN NormDay(IF m = 11 THEN y + 1 ELSE y, IF m = 11 THEN 0 ELSE m + 1,
                 d - DaysInMonth(y, m), h, mi)
    ELSE [year |-> y, month |-> m, date |-> d, hours |-> h, minutes |-> mi]

\* new Date(year, monthIndex, day, hours, minutes) in local time, as the
\* fields getFullYear, getMonth, getDate, getHours, getMinutes give them back:
\* a year 0..99 means 1900 + year, and every field out of range carries over
NewDate(year, monthIndex, day, hours, minutes) ==
    LET y0 == IF year >= 0 /\ year <= 99 THEN 1900 + year ELSE year
        hh == hours + (minutes \div 60)
        dd == day + (hh \div 24)
        yy == y0 + (monthIndex \div 12)
    IN  NormDay(yy, monthIndex % 12, dd, hh % 24, minutes % 60)


(***************************************************************************)
(* Header decoding (findComments, the name / timestamp part)               *)
(***************************************************************************)
Separator == <<"|", " ">>
LinkOpen  == <<"[", "[">>
LinkClose == <<"]", "]">>

\* timestampStr.match(/\[\[(\d{4}-\d{2}-\d{2})\]\]/) succeeds at offset i
DateLinkAt(t, i) ==
    /\ i + 14 <= Len(t)
    /\ OccursAt(t, LinkOpen, i)
    /\ AllDigits(t, i + 2, i + 6)
    /\ t[i + 7] = "-"
    /\ AllDigits(t, i + 7, i + 9)
    /\ t[i + 10] = "-"
    /\ AllDigits(t, i + 10, i + 12)
    /\ OccursAt(t, LinkClose, i + 12)

\* offset of the first character after the white space that starts at offset p
RECURSIVE SkipSpaces(_, _)
SkipSpaces(t, p) ==
    IF p < Len(t) /\ IsSpace(t[p + 1]) THEN SkipSpaces(t, p + 1) ELSE p

\* timestampStr.match(/\]\]\s+(\d{2}):(\d{2})/) succeeds at offset j
TimeAt(t, j) ==
    /\ OccursAt(t, LinkClose, j)
    /\ LET q == SkipSpaces(t, j + 2)
       IN  /\ q > j + 2
           /\ q + 5 <= Len(t)
           /\ AllDigits(t, q, q + 2)
           /\ t[q + 3] = ":"
           /\ AllDigits(t, q + 3, q + 5)

\* timestampStr.match(/(\d{1,2})\/(\d{1,2})\/(\d{4})/) succeeds at offset i
\* with a day of dl digits and a month of ml digits
LegacyAt(t, i, dl, ml) ==
    /\ i + dl + ml + 6 <= Len(t)
    /\ AllDigits(t, i, i + dl)
    /\ t[i + dl + 1] = "/"
    /\ AllDigits(t, i + dl + 1, i + dl + 1 + ml)
    /\ t[i + dl + ml + 2] = "/"
    /\ AllDigits(t, i + dl + ml + 2, i + dl + ml + 6)

\* the month number is handed to Date as it is written
MonthIndex_Unshifted(month) == month

\* "month - 1" (lines 384, 386, 394): Date counts months from 0
MonthIndex(month) == month - 1

\* a header without decodable timestamp gets the start of the epoch
NoTimestamp_Epoch == Defined(NewDate(1970, 0, 1, 0, 0))

\* "let timestamp" (line 360): the value that stays when nothing is decoded
NoTimestamp == Undefined

\* lines 374-388: the new format [[YYYY-MM-DD]] HH:mm
DecodeLink(timestampStr) ==
    LET dateHits == {i \in 0..Len(timestampStr) : DateLinkAt(timestampStr, i)}
    IN  IF dateHits = {} THEN NoTimestamp
        ELSE LET i == MinOf(dateHits)
                 year  == ParseInt(Slice(timestampStr, i + 2, i + 6))
                 month == ParseInt(Slice(timestampStr, i + 7, i + 9))
                 day   == ParseInt(Slice(timestampStr, i + 10, i + 12))
                 timeHits == {j \in 0..Len(timestampStr) : TimeAt(timestampStr, j)}
             IN  IF timeHits = {}
                 THEN Defined(NewDate(year, MonthIndex(month), day, 0, 0))
                 ELSE LET q == SkipSpaces(timestampStr, MinOf(timeHits) + 2)
                      IN  Defined(NewDate(year, MonthIndex(month), day,
                              ParseInt(Slice(timestampStr, q, q + 2)),
                              ParseInt(Slice(timestampStr, q + 3, q + 5))))

\* lines 390-395: the legacy format DD/MM/YYYY; \d{1,2} is greedy
DecodeLegacy(timestampStr) ==
    LET hits == {h \in (0..Len(timestampStr)) \X {1, 2} \X {1, 2} :
                    LegacyAt(timestampStr, h[1], h[2], h[3])}
    IN  IF hits = {} THEN NoTimestamp
        ELSE LET i  == MinOf({h[1] : h \in hits})
                 h  == CHOOSE x \in hits :
                           x[1] = i /\ \A y \in hits : y[1] = i => y[2] <= x[2]
                 dl == h[2]
                 ml == h[3]
                 day   == ParseInt(Slice(timestampStr, i, i + dl))
                 month == ParseInt(Slice(timestampStr, i + dl + 1, i + dl + 1 + ml))
                 year  == ParseInt(Slice(timestampStr, i + dl + ml + 2, i + dl + ml + 6))
             IN  Defined(NewDate(year, MonthIndex(month), day, 0, 0))

\* lines 372-396: the Date decoded from the text after the separator
ParseTimestamp(timestampStr) ==
    IF Includes(timestampStr, LinkOpen) /\ Includes(timestampStr, LinkClose)
    THEN DecodeLink(timestampStr)
    ELSE DecodeLegacy(timestampStr)

\* lines 359-399: the name and the timestamp of a comment from match[1]
DecodeHeader(g1) ==
    LET name == Trim(g1)
        sep  == IndexOf(name, Separator)
    IN  IF sep >= 0
        THEN [name      |-> Slice(name, 0, sep),
              timestamp |-> ParseTimestamp(Trim(SliceFrom(name, sep + 2)))]
        ELSE [name |-> name, timestamp |-> NoTimestamp]


(***************************************************************************)
(* CommentPlugin.findComments                                              *)
(***************************************************************************)
Pos(l) == [line |-> l, ch |-> 0]

\* every offset counts as one of the first line
LineOf_FirstLine(prefix) == 1

\* (text.match(/\n/g)?.length || -1) + 1 : no line break at all gives 0
LineOf(prefix) ==
    LET n == CountNL(prefix) IN (IF n = 0 THEN -1 ELSE n) + 1

\* line 402-404: the body without the marker, one ">" and the white space
\* around the rest taken off every line
StripLine(line) ==
    Trim(IF Len(line) > 0 /\ line[1] = GT THEN Tail(line) ELSE line)

StripBody(g2) ==
    LET ls == Split(g2)
    IN  Join([k \in 1..Len(ls) |-> StripLine(ls[k])])

\* the content keeps the sub-comments
CutAtMarker_Keep(content) == content

\* lines 421-422: the content without the sub-comments
CutAtMarker(content) ==
    LET i == IndexOf(content, <<GT>>)
    IN  IF i >= 0 THEN Slice(content, 0, i) ELSE content

\* every comment gets its own end as contentPos
ContentPosOf_OwnEnd(parentContentPos, endPos) == Pos(endPos.line)

\* lines 414-415: the contentPos of the top-level comment is handed down
ContentPosOf(parentContentPos, endPos) ==
    IF parentContentPos = Undefined THEN Pos(endPos.line) ELSE parentContentPos[1]

\* the body of a comment is scanned with its lines counted from 0
ChildOffset_Zero(startPos) == Pos(0)

\* line 418: the posOffset of the call on the body, { line: startPos.line, ch: 0 }
ChildOffset(startPos) == Pos(startPos.line)

\* line 363: "if (!match.index) continue" also skips a match at offset 0
Skipped(m) == m.index = 0

RECURSIVE findComments(_, _, _, _)
RECURSIVE CommentsOf(_, _, _, _, _)

\* lines 357-425: the loop over the matches
CommentsOf(file, fileContent, posOffset, parentContentPos, ms) ==
    IF ms = <<>> THEN <<>>
    ELSE LET m == Head(ms)
         IN  IF Skipped(m)
             THEN CommentsOf(file, fileContent, posOffset, parentContentPos, Tail(ms))
             ELSE
               LET hd         == DecodeHeader(m.g1)
                   content    == StripBody(m.g2)
                   startLine  == LineOf(Slice(fileContent, 0, m.index))
                   endLine    == LineOf(Slice(fileContent, 0, m.end))
                   startPos   == Pos(startLine + posOffset.line)
                   endPos     == Pos(endLine + posOffset.line)
                   contentPos == ContentPosOf(parentContentPos, endPos)
                   children   == findComments(file, content, ChildOffset(startPos),
                                              Defined(contentPos))
               IN  <<[name           |-> hd.name,
                      content        |-> CutAtMarker(content),
                      startPos       |-> startPos,
                      endPos         |-> endPos,
                      children       |-> children,
                      contentPos     |-> contentPos,
                      file           |-> file,
                      timestamp      |-> hd.timestamp,
                      childrenHidden |-> FALSE]>>
                   \o CommentsOf(file, fileContent, posOffset, parentContentPos, Tail(ms))

findComments(file, fileContent, posOffset, parentContentPos) ==
    CommentsOf(file, fileContent, posOffset, parentContentPos, MatchAll(fileContent))


(***************************************************************************)
(* Documents: the wire format of section 6 of the specification            *)
(*     > [!comment] <name>[ | <timestamp>]                                 *)
(*     > <content line>                                                    *)
(*     >> [!comment] <nested name>                                         *)
(*     >> <nested content>                                                 *)
(* A document is described by its lead (what stands before the first       *)
(* block), its blocks and whether the text ends with a line break; Render  *)
(* gives the text.                                                         *)
(***************************************************************************)
RECURSIVE Repeat(_, _)
Repeat(c, n) == IF n = 0 THEN <<>> ELSE <<c>> \o Repeat(c, n - 1)

\* a header line at nesting depth d: d markers, the callout, the name
HeaderLine(d, name, suffix) == Repeat(GT, d - 1) \o CommentHeader \o name \o suffix

\* a continuation line at nesting depth d
BodyLine(d, text) == Repeat(GT, d) \o <<SP>> \o text

\* what follows the name on the header line
SuffixText(k) ==
    CASE k = "none"   -> <<>>
      [] k = "new"    -> <<" ", "|", " ", "[", "[", "2", "0", "2", "5", "-", "0", "7", "-", "0", "5", "]", "]", " ", "1", "4", ":", "3", "0">>
      [] k = "date"   -> <<" ", "|", " ", "[", "[", "2", "0", "2", "5", "-", "0", "7", "-", "0", "5", "]", "]">>
      [] k = "legacy" -> <<" ", "|", " ", "0", "5", "/", "0", "7", "/", "2", "0", "2", "5">>
      [] k = "leap"   -> <<" ", "|", " ", "[", "[", "2", "0", "2", "4", "-", "0", "2", "-", "2", "9", "]", "]", " ", "2", "3", ":", "5", "9">>
      [] k = "bad"    -> <<" ", "|", " ", "s", "o", "o", "n">>
      [] k = "over"   -> <<" ", "|", " ", "[", "[", "2", "0", "2", "5", "-", "0", "2", "-", "3", "0", "]", "]", " ", "2", "4", ":", "6", "0">>

\* the continuation lines of a block's own text
BodyLines(k) ==
    CASE k = "none" -> <<>>
      [] k = "x"    -> <<BodyLine(1, <<"x">>)>>
      [] k = "z"    -> <<BodyLine(1, <<"z">>)>>
      [] k = "xy"   -> <<BodyLine(1, <<"x">>), BodyLine(1, <<"y">>)>>
      [] k = "pad"  -> <<BodyLine(1, <<" ", " ", "x", " ", " ">>)>>
      [] k = "gt"   -> <<BodyLine(1, <<"a", " ", ">", " ", "b">>)>>

\* the nested blocks of a block
KidLines(k) ==
    CASE k = "none" -> <<>>
      [] k = "one"  -> <<HeaderLine(2, <<"B">>, <<>>), BodyLine(2, <<"y">>)>>
      [] k = "two"  -> <<HeaderLine(2, <<"B">>, <<>>), BodyLine(2, <<"y">>),
                         BodyLine(1, <<>>),
                         HeaderLine(2, <<"D">>, <<>>), BodyLine(2, <<"w">>)>>
      [] k = "deep" -> <<HeaderLine(2, <<"B">>, <<>>), BodyLine(2, <<"y">>),
                         HeaderLine(3, <<"D">>, <<>>), BodyLine(3, <<"w">>)>>
      [] k = "inline" -> <<BodyLine(1, <<"x", SP>> \o HeaderLine(1, <<"B">>, <<>>)),
                           BodyLine(2, <<"y">>)>>

BlockLines(b) ==
    <<HeaderLine(1, <<b.name>>, SuffixText(b.suffix))>> \o BodyLines(b.body) \o KidLines(b.kids)

\* the lines of the blocks, one empty line between two blocks
RECURSIVE BlocksLines(_)
BlocksLines(bs) ==
    IF bs = <<>> THEN <<>>
    ELSE IF Len(bs) = 1 THEN BlockLines(bs[1])
    ELSE BlockLines(bs[1]) \o << <<>> >> \o BlocksLines(Tail(bs))

\* lead "none": the first block starts at offset 0; "text": a line of text
\* comes first; "space": the first line starts with a space
DocLines(d) ==
    LET ls == BlocksLines(d.blocks)
    IN  CASE d.lead = "none"  -> ls
          [] d.lead = "text"  -> << <<"t">> >> \o ls
          [] d.lead = "space" -> IF ls = <<>> THEN << <<SP>> >>
                                 ELSE << <<SP>> \o ls[1] >> \o Tail(ls)

Render(d) == Join(DocLines(d)) \o (IF d.nl THEN <<NL>> ELSE <<>>)

Leads == {"none", "text", "space"}

RECURSIVE SeqsUpTo(_, _)
SeqsUpTo(S, n) ==
    IF n = 0 THEN {<<>>}
    ELSE LET shorter == SeqsUpTo(S, n - 1)
         IN  shorter \cup {Append(q, x) : q \in {r \in shorter : Len(r) = n - 1}, x \in S}

Block(name, suffix, body, kids) ==
    [name |-> name, suffix |-> suffix, body |-> body, kids |-> kids]

DocsOf(blocks, n) ==
    {[lead |-> l, blocks |-> bs, nl |-> e] :
        l \in Leads, bs \in SeqsUpTo(blocks, n), e \in BOOLEAN}


(***************************************************************************)
(* CommentView: the stored trees, reconciliation, the splice of a removal  *)
(***************************************************************************)
\* TFile.name of a path: the part after the last "/"
FileName(path) == CASE path = "dir/a.md" -> "a.md" [] OTHER -> path

\* the match ignores the content
FindIndex_IgnoresContent(prevComment, cs) ==
    LET hits == {i \in 1..Len(cs) :
                    /\ prevComment.name = cs[i].name
                    /\ Len(prevComment.children) = Len(cs[i].children)}
    IN  IF hits = {} THEN 0 ELSE MinOf(hits)

\* the match is by the line of the header
FindIndex_ByLine(prevComment, cs) ==
    LET hits == {i \in 1..Len(cs) : prevComment.startPos = cs[i].startPos}
    IN  IF hits = {} THEN 0 ELSE MinOf(hits)

\* the last fresh comment with the key is taken
FindIndex_Last(prevComment, cs) ==
    LET hits == {i \in 1..Len(cs) :
                    /\ prevComment.content = cs[i].content
                    /\ prevComment.name = cs[i].name
                    /\ Len(prevComment.children) = Len(cs[i].children)}
    IN  IF hits = {} THEN 0 ELSE CHOOSE i \in hits : \A j \in hits : j <= i

\* lines 492-496: comments.findIndex(...), 0 when nothing matches
FindIndex(prevComment, cs) ==
    LET hits == {i \in 1..Len(cs) :
                    /\ prevComment.content = cs[i].content
                    /\ prevComment.name = cs[i].name
                    /\ Len(prevComment.children) = Len(cs[i].children)}
    IN  IF hits = {} THEN 0 ELSE MinOf(hits)

\* the matching fresh node is replaced by the previous node as a whole
RECURSIVE Reconcile_WholeNode(_, _, _)
Reconcile_WholeNode(prev, cs, k) ==
    IF k > Len(prev) THEN cs
    ELSE LET i == FindIndex(prev[k], cs)
         IN  Reconcile_WholeNode(prev, IF i >= 1 THEN [cs EXCEPT ![i] = prev[k]] ELSE cs, k + 1)

\* lines 490-500: the forEach over the previous comments, from the k-th on
RECURSIVE Reconcile(_, _, _)
Reconcile(prev, cs, k) ==
    IF k > Len(prev) THEN cs
    ELSE LET i == FindIndex(prev[k], cs)
         IN  Reconcile(prev,
                       IF i >= 1
                       THEN [cs EXCEPT ![i].childrenHidden = prev[k].childrenHidden]
                       ELSE cs,
                       k + 1)

\* the fresh tree is stored as it is
StoredTree_NoCarryOver(all, cs, fileName) == cs

\* lines 487-503: the tree stored for fileName after setComments(cs, fileName)
StoredTree(all, cs, fileName) ==
    IF fileName \in DOMAIN all THEN Reconcile(all[fileName], cs, 1) ELSE cs

\* Array.prototype.splice(start, deleteCount) without inserted items
ArraySplice(lines, start, deleteCount) ==
    LET len  == Len(lines)
        from == IF start < 0 THEN (IF len + start < 0 THEN 0 ELSE len + start)
                ELSE IF start > len THEN len ELSE start
        cnt  == IF deleteCount < 0 THEN 0
                ELSE IF deleteCount > len - from THEN len - from ELSE deleteCount
    IN  SubSeq(lines, 1, from) \o SubSeq(lines, from + cnt + 1, len)

\* lines 774-780: the text removeComment writes back
RemovedText(content, comment) ==
    Join(ArraySplice(Split(content), comment.startPos.line - 1,
                     comment.endPos.line - comment.startPos.line))

\* Array.prototype.splice(start, 0, item)
ArrayInsert(lines, start, item) ==
    LET len  == Len(lines)
        from == IF start < 0 THEN (IF len + start < 0 THEN 0 ELSE len + start)
                ELSE IF start > len THEN len ELSE start
    IN  SubSeq(lines, 1, from) \o <<item>> \o SubSeq(lines, from + 1, len)

\* line 203: the default of settings.username
username == <<"U", "s", "e", "r">>

\* lines 242-254: getFormattedTimestamp() at 14:30 on 5 July 2025, with the
\* separator that line 734 puts before it
FormattedTimestamp == SuffixText("new")

\* line 734: the header of the new sub-comment
SubHeaderLine == <<GT, GT>> \o Tail(CommentHeader) \o username \o FormattedTimestamp

\* lines 728-731
InsertPosition(comment) ==
    LET insertPosition == comment.endPos.line - 2
    IN  IF insertPosition < comment.startPos.line
        THEN comment.startPos.line
        ELSE insertPosition

\* lines 727-741: the text addComment writes back
InsertedText(content, comment) ==
    LET ip  == InsertPosition(comment)
        l1  == ArrayInsert(Split(content), ip + 1, <<GT, SP>>)
        l2  == ArrayInsert(l1, ip + 2, SubHeaderLine)
        l3  == ArrayInsert(l2, ip + 3, <<GT, GT, SP>>)
    IN  Join(l3)

\* the line number handed to navigateToNewComment, one line too high
newCommentLine_Next(comment) == InsertPosition(comment) + 5

\* line 739: the line number handed to navigateToNewComment
newCommentLine(comment) == InsertPosition(comment) + 4

\* the nodes of a tree, at every depth, as paths of child indices
RECURSIVE PathsOf(_)
PathsOf(cs) ==
    UNION {{<<i>>} \cup {<<i>> \o q : q \in PathsOf(cs[i].children)} : i \in 1..Len(cs)}

RECURSIVE NodeAt(_, _)
NodeAt(cs, path) ==
    IF Len(path) = 1 THEN cs[path[1]] ELSE NodeAt(cs[path[1]].children, Tail(path))

(***************************************************************************)
(* SpecExtract: the extractor as a function of the text                    *)
(***************************************************************************)
MaxBlocks == 2

ExtractBlocks ==
    {Block("A", sf, "x", "none") : sf \in {"none", "new", "date", "legacy", "leap", "bad", "over"}}
    \cup {Block("A", "none", b, "none") : b \in {"xy", "pad", "gt", "none"}}
    \cup {Block("A", "none", "x", k) : k \in {"one", "two", "deep"}}
    \cup {Block("A", "none", "none", "one"), Block("A", "none", "none", "inline"),
          Block("B", "none", "xy", "none")}

ExtractDocs == DocsOf(ExtractBlocks, MaxBlocks)

TheFile == "a.md"

InitExtract ==
    /\ doc \in ExtractDocs
    /\ extracted = Undefined
    /\ vault = <<>>
    /\ comments = <<>>
    /\ shown = Undefined
    /\ mods = {}
    /\ replaced = Undefined
    /\ reads = <<>>

\* updateComments, line 339: the top-level call on the whole text
Extract ==
    /\ extracted = Undefined
    /\ extracted' = Defined(findComments(TheFile, Render(doc), Pos(0), Undefined))
    /\ UNCHANGED <<doc, reads, vault, comments, shown, mods, replaced>>

NextExtract == Extract

SpecExtract == InitExtract /\ [][NextExtract]_vars

(***************************************************************************)
(* Spec: one document, the sidebar view open on it                         *)
(***************************************************************************)
\* the comments, at every depth, of the document a behaviour starts from
MaxComments == 4

ViewBlocks == {Block("A", "none", "x", "one"), Block("A", "none", "x", "deep")}

\* the number of comments of a block and of a sequence of blocks
BlockSize(b) == CASE b.kids = "none" -> 1 [] b.kids = "one" -> 2 [] OTHER -> 3

RECURSIVE DocSize(_)
DocSize(bs) == IF bs = <<>> THEN 0 ELSE BlockSize(Head(bs)) + DocSize(Tail(bs))

\* every document of at most MaxComments comments after a line of text and
\* with a final line break; the smaller ones also with the other leads and
\* without the final line break
ViewDocs ==
    {d \in DocsOf(ViewBlocks, MaxComments) :
        /\ DocSize(d.blocks) <= MaxComments
        /\ (d.lead = "text" /\ d.nl) \/ DocSize(d.blocks) < MaxComments}

Init ==
    /\ doc \in ViewDocs
    /\ extracted = Undefined
    /\ vault = (TheFile :> Render(doc))
    /\ comments = <<>>
    /\ shown = Undefined
    /\ mods = {}
    /\ replaced = Undefined
    /\ reads = <<>>

\* lines 335-345 and 487-505: the file is read and parsed, the open view
\* reconciles, stores and renders the tree
updateComments(file) ==
    LET content == vault[file]
        cs      == findComments(file, content, Pos(0), Undefined)
        name    == FileName(file)
    IN  /\ comments' = (name :> StoredTree(comments, cs, name)) @@ comments
        /\ shown' = Defined(name)
        /\ mods' = {}
        /\ replaced' = IF name \in DOMAIN comments THEN Defined(comments[name]) ELSE Undefined
        /\ UNCHANGED <<doc, reads, extracted, vault>>

\* lines 577-589: the minimize button of the i-th rendered top-level comment,
\* which only a comment with children has
ClickMinimize(i) ==
    /\ Len(comments[shown[1]][i].children) > 0
    /\ comments' = [comments EXCEPT
           ![shown[1]][i].childrenHidden = ~comments[shown[1]][i].childrenHidden]
    /\ replaced' = Undefined
    /\ UNCHANGED <<doc, reads, extracted, vault, shown, mods>>

\* the button collapses all when every comment is collapsed already
anyCollapsed_Every(cs) ==
    \A i \in 1..Len(cs) : Len(cs[i].children) > 0 => cs[i].childrenHidden

\* lines 668-669: some top-level comment with children is collapsed
anyCollapsed(cs) ==
    \E i \in 1..Len(cs) : Len(cs[i].children) > 0 /\ cs[i].childrenHidden

\* lines 668-674: the tree after the button "Expand All" / "Collapse All"
ToggledTree(cs) ==
    [i \in 1..Len(cs) |->
        IF Len(cs[i].children) > 0
        THEN [cs[i] EXCEPT !.childrenHidden = IF anyCollapsed(cs) THEN FALSE ELSE TRUE]
        ELSE cs[i]]

\* lines 664-678 and 807-812: the button of the view header, for the stored
\* tree of the active file, which is rendered again
toggleExpandAll(fileName) ==
    /\ fileName \in DOMAIN comments
    /\ comments' = [comments EXCEPT ![fileName] = ToggledTree(comments[fileName])]
    /\ shown' = Defined(fileName)
    /\ replaced' = Defined(comments[fileName])
    /\ UNCHANGED <<doc, reads, extracted, vault, mods>>

\* lines 773-780: "Remove" in the context menu of a rendered comment. The
\* positions are those of the most recent parse of the text (lines 782-784:
\* the modification listener parses again after every change)
removeComment(comment) ==
    /\ mods = {}
    /\ vault' = [vault EXCEPT
                    ![comment.file] = RemovedText(vault[comment.file], comment)]
    /\ mods' = mods \cup {"remove"}
    /\ replaced' = Undefined
    /\ UNCHANGED <<doc, reads, extracted, comments, shown>>

\* sub-comments added by the view in the text of a file
MaxInserted == 1

InsertedIn(text) ==
    Cardinality({k \in 1..Len(Split(text)) : Split(text)[k] = SubHeaderLine})

\* lines 723-748: "Add subcomment" in the context menu of a rendered comment,
\* on the positions of the most recent parse of the text
addComment(comment) ==
    /\ mods = {}
    /\ InsertedIn(vault[comment.file]) < MaxInserted
    /\ vault' = [vault EXCEPT
                    ![comment.file] = InsertedText(vault[comment.file], comment)]
    /\ mods' = mods \cup {"add"}
    /\ replaced' = Undefined
    /\ UNCHANGED <<doc, reads, extracted, comments, shown>>

\* the user rewrites the text of a top-level comment in the editor: line k of
\* the file, a continuation line "> x" or "> z", becomes the other one
EditLines == {BodyLine(1, <<"x">>), BodyLine(1, <<"z">>)}

EditBody(file, k) ==
    LET lines == Split(vault[file])
    IN  /\ lines[k] \in EditLines
        /\ vault' = [vault EXCEPT ![file] =
               Join([lines EXCEPT ![k] = CHOOSE l \in EditLines : l # lines[k]])]
        /\ mods' = mods \cup {"edit"}
        /\ replaced' = Undefined
        /\ UNCHANGED <<doc, reads, extracted, comments, shown>>

\* the comments the view has rendered, at every depth
Rendered == IF shown = Undefined THEN <<>> ELSE comments[shown[1]]

Next ==
    \/ \E f \in DOMAIN vault : updateComments(f)
    \/ \E i \in 1..Len(Rendered) : ClickMinimize(i)
    \/ \E p \in PathsOf(Rendered) : removeComment(NodeAt(Rendered, p))
    \/ \E f \in DOMAIN vault : \E k \in 1..Len(Split(vault[f])) : EditBody(f, k)

Spec == Init /\ [][Next]_vars

\* SpecInsert: the view open on one document, sub-comments are added
NextInsert ==
    \/ \E f \in DOMAIN vault : updateComments(f)
    \/ \E i \in 1..Len(Rendered) : ClickMinimize(i)
    \/ \E p \in PathsOf(Rendered) : addComment(NodeAt(Rendered, p))

SpecInsert == Init /\ [][NextInsert]_vars

\* SpecAsync: updateComments as the asynchronous function it is. A call comes
\* from the file-open listener or from the debounced modify listener, awaits
\* its own read of the file and goes on with what the read gave; nothing
\* orders the reads and the continuations of two calls.
\* calls of updateComments between two moments with no call pending
MaxCalls == 2

AllDone == \A k \in 1..Len(reads) : reads[k].done

\* lines 271-278 and 335-336: a listener calls updateComments(file)
callUpdate(file) ==
    LET call == [file |-> file, content |-> Undefined, done |-> FALSE]
    IN  /\ AllDone \/ Len(reads) < MaxCalls
        /\ reads' = IF AllDone THEN <<call>> ELSE Append(reads, call)
        /\ UNCHANGED <<doc, extracted, vault, comments, shown, mods, replaced>>

\* line 338: file.vault.cachedRead(file) of the k-th call gets the text
cachedRead(k) ==
    /\ reads[k].content = Undefined
    /\ reads' = [reads EXCEPT ![k].content = Defined(vault[reads[k].file])]
    /\ UNCHANGED <<doc, extracted, vault, comments, shown, mods, replaced>>

\* lines 339-343 and 487-505: the k-th call goes on after its await, parses
\* what it read and hands the tree to the view
resumeUpdate(k) ==
    LET file    == reads[k].file
        name    == FileName(file)
    IN  /\ reads[k].content # Undefined
        /\ ~reads[k].done
        /\ LET cs == findComments(file, reads[k].content[1], Pos(0), Undefined)
           IN  comments' = (name :> StoredTree(comments, cs, name)) @@ comments
        /\ shown' = Defined(name)
        /\ mods' = IF reads[k].content[1] = vault[file] THEN {} ELSE mods
        /\ replaced' = IF name \in DOMAIN comments THEN Defined(comments[name]) ELSE Undefined
        /\ reads' = [reads EXCEPT ![k].done = TRUE]
        /\ UNCHANGED <<doc, extracted, vault>>

NextAsync ==
    \/ \E f \in DOMAIN vault : callUpdate(f)
    \/ \E k \in 1..Len(reads) : cachedRead(k)
    \/ \E k \in 1..Len(reads) : resumeUpdate(k)
    \/ \E f \in DOMAIN vault : \E k \in 1..Len(Split(vault[f])) : EditBody(f, k)

\* SpecToggle: the view with its two buttons, on texts the user edits
NextToggle ==
    \/ \E f \in DOMAIN vault : updateComments(f)
    \/ \E i \in 1..Len(Rendered) : ClickMinimize(i)
    \/ \E n \in DOMAIN comments : toggleExpandAll(n)
    \/ \E f \in DOMAIN vault : \E k \in 1..Len(Split(vault[f])) : EditBody(f, k)

SpecToggle == Init /\ [][NextToggle]_vars

SpecAsync == Init /\ [][NextAsync]_vars

\* SpecFolders: a vault with three documents, two of which have the same file
\* name in different folders; the view is handed file.name (line 342)
OtherText == Render([lead |-> "text", blocks |-> <<Block("A", "none", "x", "one")>>, nl |-> TRUE])

InitFolders ==
    /\ doc \in ViewDocs
    /\ extracted = Undefined
    /\ vault = (TheFile :> Render(doc)) @@ ("dir/a.md" :> OtherText) @@ ("b.md" :> OtherText)
    /\ comments = <<>>
    /\ shown = Undefined
    /\ mods = {}
    /\ replaced = Undefined
    /\ reads = <<>>

NextFolders ==
    \/ \E f \in DOMAIN vault : updateComments(f)
    \/ \E i \in 1..Len(Rendered) : ClickMinimize(i)

SpecFolders == InitFolders /\ [][NextFolders]_vars


(***************************************************************************)
(* Claims on the extractor (SpecExtract)                                   *)
(***************************************************************************)
\* the tree findComments returned
Tree == extracted[1]

\* a block is a comment when a continuation line follows its header
IsComment(b) == b.body # "none" \/ b.kids # "none"

CommentBlocks(d) == SelectSeq(d.blocks, IsComment)

\* the block of the document the i-th returned node was read from: the nodes
\* come in document order, and a block that is left out is the first one
BlockOf(i) ==
    LET cb == CommentBlocks(doc) IN cb[i + (Len(cb) - Len(Tree))]

\* the body lines of a block without marker and surrounding white space,
\* joined by line breaks
OwnText(b) ==
    CASE b.body = "x"   -> <<"x">>
      [] b.body = "z"   -> <<"z">>
      [] b.body = "xy"  -> <<"x", NL, "y">>
      [] b.body = "pad" -> <<"x">>
      [] b.body = "gt"  -> <<"a", SP, GT, SP, "b">>

\* N top-level blocks without nested comments, each with body lines
FlatDoc(d) ==
    \A k \in 1..Len(d.blocks) : d.blocks[k].kids = "none" /\ d.blocks[k].body # "none"

\* C1 (as claimed): a well-formed document of N top-level, non-nested blocks
\* yields exactly N nodes, in document order, each without children, also
\* when the first block starts at the first character of the text.
C1_FlatBlocksAllReturned ==
    (extracted # Undefined /\ FlatDoc(doc)) =>
        /\ Len(Tree) = Len(doc.blocks)
        /\ \A i \in 1..Len(Tree) :
              /\ Tree[i].children = <<>>
              /\ Tree[i].name[1] = doc.blocks[i].name
              /\ \A j \in 1..Len(Tree) : i < j => Tree[i].startPos.line < Tree[j].startPos.line

\* the document  > [!comment] A \n > x \n >> [!comment] B \n >> y \n
NestingDoc == [lead |-> "none", blocks |-> <<Block("A", "none", "x", "one")>>, nl |-> TRUE]

\* C2 (as claimed): the four-line document A / x / nested B / nested y yields
\* one node A whose content stops before the nested marker, with the single
\* child B of content "y" that shares the parent's contentPos.
C2_NestingExample ==
    (extracted # Undefined /\ doc = NestingDoc) =>
        /\ Len(Tree) = 1
        /\ Tree[1].name = <<"A">>
        /\ ~Includes(Tree[1].content, <<GT>>)
        /\ SubSeq(Tree[1].content, 1, 1) = <<"x">>
        /\ Len(Tree[1].children) = 1
        /\ Tree[1].children[1].name = <<"B">>
        /\ Tree[1].children[1].content = <<"y">>
        /\ Tree[1].children[1].contentPos = Tree[1].contentPos

\* C3 (as claimed): for a single extracted top-level comment without nested
\* comments, content is the body lines joined by line breaks, marker and
\* surrounding white space stripped, nothing added and nothing cut off.
C3_ContentRoundTrip ==
    (/\ extracted # Undefined
     /\ Len(doc.blocks) = 1
     /\ FlatDoc(doc)
     /\ Len(Tree) = 1) =>
        Tree[1].content = OwnText(doc.blocks[1])

\* C4 (as claimed): a header with the "| " separator yields as name the text
\* before the separator without trailing white space, whether or not the
\* text after the separator is a timestamp.
C4_NameCutAtSeparator ==
    extracted # Undefined =>
        \A i \in 1..Len(Tree) :
            BlockOf(i).suffix # "none" => Tree[i].name = <<BlockOf(i).name>>

\* the Date a header suffix of the accepted formats stands for
DateOf(k) ==
    CASE k = "new"    -> [year |-> 2025, month |-> 6, date |-> 5, hours |-> 14, minutes |-> 30]
      [] k = "date"   -> [year |-> 2025, month |-> 6, date |-> 5, hours |-> 0, minutes |-> 0]
      [] k = "legacy" -> [year |-> 2025, month |-> 6, date |-> 5, hours |-> 0, minutes |-> 0]
      [] k = "leap"   -> [year |-> 2024, month |-> 1, date |-> 29, hours |-> 23, minutes |-> 59]

AcceptedFormats == {"new", "date", "legacy", "leap"}

\* C5: a header suffix [[YYYY-MM-DD]] HH:mm gives a timestamp of that year,
\* month, day, hour and minute; a bracketed date without time and a legacy
\* DD/MM/YYYY suffix give that date at 00:00.
C5_TimestampDecoded ==
    extracted # Undefined =>
        \A i \in 1..Len(Tree) :
            BlockOf(i).suffix \in AcceptedFormats =>
                Tree[i].timestamp = Defined(DateOf(BlockOf(i).suffix))

\* a document whose two comments carry a new-format and a legacy timestamp
\* has been extracted with both decoded
C5_Witness ==
    /\ extracted # Undefined
    /\ Len(Tree) = 2
    /\ BlockOf(1).suffix = "new" /\ Tree[1].timestamp = Defined(DateOf("new"))
    /\ BlockOf(2).suffix = "legacy" /\ Tree[2].timestamp = Defined(DateOf("legacy"))

\* what extraction gives apart from names and timestamps
RECURSIVE Shape(_)
Shape(cs) ==
    [i \in 1..Len(cs) |->
        [content |-> cs[i].content, startPos |-> cs[i].startPos, endPos |-> cs[i].endPos,
         contentPos |-> cs[i].contentPos, children |-> Shape(cs[i].children)]]

\* the document with every missing or undecodable timestamp replaced by a
\* decodable one
WithTimestamps(d) ==
    [d EXCEPT !.blocks = [k \in 1..Len(d.blocks) |->
        IF d.blocks[k].suffix \in {"none", "bad"}
        THEN [d.blocks[k] EXCEPT !.suffix = "date"]
        ELSE d.blocks[k]]]

\* C6: a header without separator gives timestamp undefined and the name
\* unchanged, an undecodable suffix gives timestamp undefined, and the text
\* yields the same comments as it does with decodable timestamps.
C6_MissingTimestampHarmless ==
    extracted # Undefined =>
        /\ \A i \in 1..Len(Tree) :
              /\ BlockOf(i).suffix = "none" =>
                    Tree[i].timestamp = Undefined /\ Tree[i].name = <<BlockOf(i).name>>
              /\ BlockOf(i).suffix = "bad" => Tree[i].timestamp = Undefined
        /\ Shape(Tree) =
              Shape(findComments(TheFile, Render(WithTimestamps(doc)), Pos(0), Undefined))

\* a document with an undecodable and a missing timestamp has been extracted
\* and both comments are there
C6_Witness ==
    /\ extracted # Undefined
    /\ Len(Tree) = 2
    /\ BlockOf(1).suffix = "bad" /\ Tree[1].timestamp = Undefined
    /\ BlockOf(2).suffix = "none" /\ Tree[2].timestamp = Undefined


(***************************************************************************)
(* Claims on reconciliation and removal (Spec)                             *)
(***************************************************************************)
\* the key setComments matches on
Triple(c) == <<c.name, c.content, Len(c.children)>>

UniqueTriple(cs, i) == \A j \in 1..Len(cs) : j # i => Triple(cs[j]) # Triple(cs[i])

\* the tree with every top-level childrenHidden at the parse default
Unhidden(cs) == [i \in 1..Len(cs) |-> [cs[i] EXCEPT !.childrenHidden = FALSE]]

\* C7 (as claimed): a collapsed top-level node is still collapsed, at the same
\* position, after the identical text is parsed again and reconciled, also
\* when other top-level comments have the same name, content and number of
\* children.
C7_CollapsedSurvivesReparse ==
    [][\A f \in DOMAIN vault :
          (updateComments(f) /\ FileName(f) \in DOMAIN comments /\ mods = {}) =>
              \A i \in 1..Len(comments[FileName(f)]) :
                  comments[FileName(f)][i].childrenHidden =>
                      comments'[FileName(f)][i].childrenHidden]_vars

\* C7 (amended): a collapsed top-level node is still collapsed, at the same
\* position, after the identical text is parsed again and reconciled,
\* provided no other top-level comment of the document has the same name,
\* content and number of children.
C7_UniqueCollapsedSurvivesReparse ==
    [][\A f \in DOMAIN vault :
          (updateComments(f) /\ FileName(f) \in DOMAIN comments /\ mods = {}) =>
              \A i \in 1..Len(comments[FileName(f)]) :
                  (/\ comments[FileName(f)][i].childrenHidden
                   /\ UniqueTriple(comments[FileName(f)], i)) =>
                      comments'[FileName(f)][i].childrenHidden]_vars

\* setComments has just replaced a tree by the parse of the same text, and a
\* node that was collapsed, the only one with its key, is collapsed still
C7_Witness ==
    /\ replaced # Undefined
    /\ Unhidden(replaced[1]) = Unhidden(Rendered)
    /\ \E i \in 1..Len(Rendered) :
          /\ replaced[1][i].childrenHidden
          /\ UniqueTriple(replaced[1], i)
          /\ Rendered[i].childrenHidden

\* every modification since the last parse was an edit of a body line
OnlyEdits == mods = {"edit"}

\* C8 (as claimed): a collapsed top-level node whose own body text was edited
\* so that its content changed has childrenHidden = false after the re-parse,
\* whatever the other comments of the previous tree are.
C8_EditedNodeReset ==
    [][\A f \in DOMAIN vault :
          (updateComments(f) /\ FileName(f) \in DOMAIN comments /\ OnlyEdits) =>
              \A i \in 1..Len(comments[FileName(f)]) :
                  (/\ comments[FileName(f)][i].childrenHidden
                   /\ comments'[FileName(f)][i].content # comments[FileName(f)][i].content) =>
                      ~comments'[FileName(f)][i].childrenHidden]_vars

\* no collapsed comment of the tree cs has the key of the comment c
NoCollapsedTwin(cs, c) ==
    \A j \in 1..Len(cs) : cs[j].childrenHidden => Triple(cs[j]) # Triple(c)

\* C8 (amended): a collapsed top-level node whose own body text was edited so
\* that its content changed has childrenHidden = false after the re-parse,
\* provided no collapsed comment of the previous tree has the node's name,
\* its new content and its number of children.
C8_EditedNodeResetUnlessTwin ==
    [][\A f \in DOMAIN vault :
          (updateComments(f) /\ FileName(f) \in DOMAIN comments /\ OnlyEdits) =>
              \A i \in 1..Len(comments[FileName(f)]) :
                  (/\ comments[FileName(f)][i].childrenHidden
                   /\ comments'[FileName(f)][i].content # comments[FileName(f)][i].content
                   /\ NoCollapsedTwin(comments[FileName(f)], comments'[FileName(f)][i])) =>
                      ~comments'[FileName(f)][i].childrenHidden]_vars

\* setComments has just replaced a tree in which a node was collapsed; the
\* node is at its place with another content, and it is expanded
C8_Witness ==
    /\ replaced # Undefined
    /\ Len(replaced[1]) = Len(Rendered)
    /\ \E i \in 1..Len(Rendered) :
          /\ replaced[1][i].childrenHidden
          /\ replaced[1][i].name = Rendered[i].name
          /\ replaced[1][i].startPos = Rendered[i].startPos
          /\ replaced[1][i].content # Rendered[i].content
          /\ NoCollapsedTwin(replaced[1], Rendered[i])
          /\ ~Rendered[i].childrenHidden

\* the (name, content) pairs of the nodes of a tree, at every depth
Pair(c) == <<c.name, c.content>>

PairsOf(cs) == {Pair(NodeAt(cs, q)) : q \in PathsOf(cs)}

\* C9 (as claimed, on the documents where it can hold at all: the removed
\* node is the only one with its (name, content) pair): after removeComment
\* on a node of a fresh parse, extracting the new text gives no node, at any
\* depth, with the removed node's (name, content) pair.
C9_RemovedPairGone ==
    [][\A p \in PathsOf(Rendered) :
          (/\ removeComment(NodeAt(Rendered, p))
           /\ \A q \in PathsOf(Rendered) :
                 q # p => Pair(NodeAt(Rendered, q)) # Pair(NodeAt(Rendered, p))) =>
              Pair(NodeAt(Rendered, p)) \notin
                  PairsOf(findComments(NodeAt(Rendered, p).file,
                                       vault'[NodeAt(Rendered, p).file], Pos(0), Undefined))]_vars

\* the matches of the text that give the top-level nodes
NodeMatches(text) == SelectSeq(MatchAll(text), LAMBDA m : ~Skipped(m))

\* 1-based numbers of the first and the last line of the block of a match
FirstLineOf(text, m) == CountNL(Slice(text, 0, m.index)) + 1

LastLineOf(text, m) ==
    CountNL(Slice(text, 0, m.end)) + (IF text[m.end] = NL THEN 0 ELSE 1)

\* the text without the lines a..b
WithoutLines(text, a, b) ==
    LET ls == Split(text) IN Join(SubSeq(ls, 1, a - 1) \o SubSeq(ls, b + 1, Len(ls)))

\* C10 (as claimed, for the top-level comments): removeComment on a comment of
\* a fresh parse deletes exactly the lines of the comment's block, header to
\* last continuation line, leaves every other line as it is, and the line
\* count drops by endPos.line - startPos.line; also for a block on the first
\* line and for a block that ends the text without a line break.
C10_RemovesExactlyTheBlock ==
    [][\A i \in 1..Len(Rendered) :
          (removeComment(Rendered[i]) /\ mods = {}) =>
              LET f    == Rendered[i].file
                  text == vault[f]
                  m    == NodeMatches(text)[i]
              IN  /\ vault'[f] = WithoutLines(text, FirstLineOf(text, m), LastLineOf(text, m))
                  /\ Len(Split(vault'[f])) =
                        Len(Split(text)) - (Rendered[i].endPos.line - Rendered[i].startPos.line)]_vars

(***************************************************************************)
(* Claims on positions (SpecExtract)                                       *)
(***************************************************************************)
\* the document ends with a comment block, and the block was extracted
EndsWithComment(d) ==
    /\ d.blocks # <<>>
    /\ IsComment(d.blocks[Len(d.blocks)])
    /\ Len(Tree) > 0

\* the last top-level node of the same document with the final line break
\* added or taken away
LastOfTwin(d) ==
    LET t == findComments(TheFile, Render([d EXCEPT !.nl = ~d.nl]), Pos(0), Undefined)
    IN  t[Len(t)]

\* C11 (as claimed): a block at the very end of the document is captured with
\* or without a final line break, and in both cases endPos.line is the line
\* after the last line of the block, so it is the same in both cases.
C11_EndPosAfterBlock ==
    (extracted # Undefined /\ EndsWithComment(doc)) =>
        LET last == Tree[Len(Tree)]
        IN  /\ last.endPos.line = Len(DocLines(doc)) + 1
            /\ last.endPos.line = LastOfTwin(doc).endPos.line
            /\ Len(last.children) = Len(LastOfTwin(doc).children)

\* every match of the pattern in the text gave a node, and so did every match
\* in the body of each of them
RECURSIVE EveryMatchKept(_, _)
EveryMatchKept(text, nodes) ==
    LET ms == MatchAll(text)
    IN  /\ Len(nodes) = Len(ms)
        /\ \A i \in 1..Len(ms) : EveryMatchKept(StripBody(ms[i].g2), nodes[i].children)

\* C12 (as claimed): the skip of a match without usable start offset drops no
\* comment: every block the pattern matches, in the text or in the body of a
\* comment, also at offset 0 of the scanned text, gives a node.
C12_NoMatchDropped ==
    extracted # Undefined => EveryMatchKept(Render(doc), Tree)

(***************************************************************************)
(* Claims on the insertion of a sub-comment (SpecInsert)                   *)
(***************************************************************************)
\* the greater of two numbers
MaxOf2(a, b) == IF a > b THEN a ELSE b

\* C13: addComment on a comment of a fresh parse puts exactly three lines, a
\* marker line "> ", a nested header and a nested content line ">> ", after
\* the first max(endPos.line - 2, startPos.line) + 1 lines of the text; the
\* line count grows by 3, no other line changes, and the reported line number
\* is the 1-based number of the new content line in the new text.
C13_InsertsThreeLines ==
    [][\A p \in PathsOf(Rendered) :
          (vault' # vault /\ addComment(NodeAt(Rendered, p))) =>
              LET c    == NodeAt(Rendered, p)
                  old  == Split(vault[c.file])
                  new  == Split(vault'[c.file])
                  at   == MaxOf2(c.endPos.line - 2, c.startPos.line) + 1
              IN  /\ Len(new) = Len(old) + 3
                  /\ SubSeq(new, 1, at) = SubSeq(old, 1, at)
                  /\ SubSeq(new, at + 1, at + 3) = << <<GT, SP>>, SubHeaderLine, <<GT, GT, SP>> >>
                  /\ SubSeq(new, at + 4, Len(new)) = SubSeq(old, at + 1, Len(old))
                  /\ newCommentLine(c) = at + 3
                  /\ new[newCommentLine(c)] = <<GT, GT, SP>>]_vars

\* a sub-comment has been added below the first block of a text that a line
\* of text opens: three lines more, the new header among them
C13_Witness ==
    /\ mods = {"add"}
    /\ doc.lead = "text"
    /\ Len(Split(vault[TheFile])) = Len(Split(Render(doc))) + 3
    /\ InsertedIn(vault[TheFile]) = 1

\* the number of markers a line starts with
RECURSIVE MarkerDepth(_)
MarkerDepth(line) ==
    IF line # <<>> /\ Head(line) = GT THEN 1 + MarkerDepth(Tail(line)) ELSE 0

\* C14 (as claimed): the header addComment inserts is one marker deeper than
\* the header of the target, at any nesting depth: two markers for a
\* top-level target, three for a target of depth 2, and so on.
C14_HeaderOneLevelDeeper ==
    [][\A p \in PathsOf(Rendered) :
          addComment(NodeAt(Rendered, p)) =>
              LET c  == NodeAt(Rendered, p)
                  at == MaxOf2(c.endPos.line - 2, c.startPos.line) + 1
              IN  MarkerDepth(Split(vault'[c.file])[at + 2]) = Len(p) + 1]_vars

\* C15: every node findComments returns, at every depth, has
\* startPos.line < endPos.line.
C15_StartBeforeEnd ==
    extracted # Undefined =>
        \A p \in PathsOf(Tree) : NodeAt(Tree, p).startPos.line < NodeAt(Tree, p).endPos.line

\* a text without final line break was extracted down to a comment of depth
\* 3, which ends one line after its header
C15_Witness ==
    /\ extracted # Undefined
    /\ ~doc.nl
    /\ \E p \in PathsOf(Tree) :
          /\ Len(p) = 3
          /\ NodeAt(Tree, p).endPos.line = NodeAt(Tree, p).startPos.line + 1

\* the parent's lines contain the lines of every child, at every depth
RECURSIVE ChildrenInside(_)
ChildrenInside(c) ==
    \A k \in 1..Len(c.children) :
        /\ c.startPos.line <= c.children[k].startPos.line
        /\ c.children[k].startPos.line < c.endPos.line
        /\ c.children[k].endPos.line <= c.endPos.line
        /\ ChildrenInside(c.children[k])

\* C16: for every node and every node C of its children,
\* parent.startPos.line <= C.startPos.line < parent.endPos.line and
\* C.endPos.line <= parent.endPos.line, with and without final line break.
C16_ChildrenWithinParent ==
    extracted # Undefined => \A i \in 1..Len(Tree) : ChildrenInside(Tree[i])

\* a text without final line break was extracted to a comment whose child
\* ends on the parent's endPos.line and has a child of its own
C16_Witness ==
    /\ extracted # Undefined
    /\ ~doc.nl
    /\ \E i \in 1..Len(Tree) : \E k \in 1..Len(Tree[i].children) :
          /\ Tree[i].children[k].endPos.line = Tree[i].endPos.line
          /\ Tree[i].children[k].children # <<>>

\* C17: each top-level node's contentPos.line is its own endPos.line, and
\* every node below it, at any depth, has the contentPos of that top-level
\* node, not that of another top-level comment.
C17_ContentPosShared ==
    extracted # Undefined =>
        /\ \A i \in 1..Len(Tree) :
              Tree[i].contentPos.line = Tree[i].endPos.line /\ Tree[i].contentPos.ch = 0
        /\ \A p \in PathsOf(Tree) : NodeAt(Tree, p).contentPos = Tree[p[1]].contentPos

\* two top-level comments with different contentPos were extracted, each
\* with a child, the first one with a child that ends before its parent
C17_Witness ==
    /\ extracted # Undefined
    /\ Len(Tree) = 2
    /\ Tree[1].contentPos # Tree[2].contentPos
    /\ Tree[2].children # <<>>
    /\ \E k \in 1..Len(Tree[1].children) :
          Tree[1].children[k].endPos.line < Tree[1].endPos.line

\* the nodes read from a text whose first line is line base + 1 of the
\* document start on the lines of their headers, and so do their children,
\* whose bodies begin on the line after the header
RECURSIVE StartsOnHeader(_, _, _)
StartsOnHeader(text, nodes, base) ==
    LET ms == NodeMatches(text)
    IN  \A i \in 1..Len(nodes) :
            LET headerLine == base + CountNL(Slice(text, 0, ms[i].index)) + 1
            IN  /\ nodes[i].startPos.line = headerLine
                /\ StartsOnHeader(StripBody(ms[i].g2), nodes[i].children, headerLine)

RECURSIVE ContentBeforeKids(_, _)
ContentBeforeKids(text, nodes) ==
    LET ms == NodeMatches(text)
    IN  \A i \in 1..Len(nodes) :
            LET body == StripBody(ms[i].g2)
            IN  /\ nodes[i].children # <<>> =>
                      /\ Len(nodes[i].content) <= MatchAll(body)[1].index
                      /\ nodes[i].content = Slice(body, 0, Len(nodes[i].content))
                      /\ ~Includes(nodes[i].content, Tail(CommentHeader))
                /\ ContentBeforeKids(body, nodes[i].children)

\* C19: the content of a node with at least one child ends before the first
\* nested comment marker of its body, so it has no header and no body text
\* of a sub-comment in it.
C19_ContentExcludesChildren ==
    extracted # Undefined => ContentBeforeKids(Render(doc), Tree)

\* a comment with text of its own and a child that has text and a child too
C19_Witness ==
    /\ extracted # Undefined
    /\ \E p \in PathsOf(Tree) :
          /\ Len(p) = 2
          /\ NodeAt(Tree, p).children # <<>>
          /\ NodeAt(Tree, p).content # <<>>
          /\ Tree[p[1]].content # <<>>

(***************************************************************************)
(* Claims on the stored tree (Spec)                                        *)
(***************************************************************************)
\* C20: setComments stores the fresh tree with nothing changed but the
\* childrenHidden of top-level nodes: the same nodes in the same order, with
\* the same name, content, positions, timestamp and children, nested
\* childrenHidden included; without a previous tree of the document the
\* fresh tree is stored as it is, every childrenHidden at the default.
C20_OnlyTopLevelHiddenChanges ==
    [][\A f \in DOMAIN vault :
          updateComments(f) =>
              LET fresh == findComments(f, vault[f], Pos(0), Undefined)
              IN  /\ FileName(f) \in DOMAIN comments'
                  /\ Unhidden(comments'[FileName(f)]) = fresh
                  /\ FileName(f) \notin DOMAIN comments => comments'[FileName(f)] = fresh]_vars

\* setComments has replaced a tree after a removal: a comment of the new tree
\* is collapsed like the one it matched, which stood on other lines, and the
\* child of the collapsed comment is not collapsed
C20_Witness ==
    /\ replaced # Undefined
    /\ Len(replaced[1]) > Len(Rendered)
    /\ \E i \in 1..Len(Rendered) : \E j \in 1..Len(replaced[1]) :
          /\ Rendered[i].childrenHidden
          /\ replaced[1][j].childrenHidden
          /\ Triple(replaced[1][j]) = Triple(Rendered[i])
          /\ replaced[1][j].startPos # Rendered[i].startPos
          /\ ~Rendered[i].children[1].childrenHidden

\* C21: after setComments with a previous tree, the childrenHidden of every
\* top-level fresh node is the default or the value of a previous top-level
\* node with its (name, content, children.length), and a fresh node that is
\* not the first one with its key keeps the default.
C21_HiddenFromMatchingPrevious ==
    [][\A f \in DOMAIN vault :
          (updateComments(f) /\ FileName(f) \in DOMAIN comments) =>
              LET prev   == comments[FileName(f)]
                  stored == comments'[FileName(f)]
              IN  \A i \in 1..Len(stored) :
                      /\ \/ ~stored[i].childrenHidden
                         \/ \E j \in 1..Len(prev) :
                               /\ Triple(prev[j]) = Triple(stored[i])
                               /\ prev[j].childrenHidden = stored[i].childrenHidden
                      /\ (\E k \in 1..(i - 1) : Triple(stored[k]) = Triple(stored[i])) =>
                            ~stored[i].childrenHidden]_vars

\* setComments has replaced a tree with two comments of one key, the second
\* of them collapsed: the first fresh one is collapsed, the second one not
C21_Witness ==
    /\ replaced # Undefined
    /\ Len(replaced[1]) = 2 /\ Len(Rendered) = 2
    /\ Triple(Rendered[1]) = Triple(Rendered[2])
    /\ ~replaced[1][1].childrenHidden /\ replaced[1][2].childrenHidden
    /\ Rendered[1].childrenHidden /\ ~Rendered[2].childrenHidden

\* the number of comments of a node's subtree, the node itself included
RECURSIVE SizeOf(_)
SizeOf(c) == 1 + Cardinality(PathsOf(c.children))

\* C22 (as claimed, for a node that no other previous comment shares its new
\* key with): when a comment was removed anywhere below a collapsed top-level
\* node, at any depth, the node does not match its previous version and has
\* childrenHidden = false after the re-parse.
C22_ChangeBelowResets ==
    [][\A f \in DOMAIN vault :
          (updateComments(f) /\ FileName(f) \in DOMAIN comments /\ mods = {"remove"}) =>
              LET prev   == comments[FileName(f)]
                  stored == comments'[FileName(f)]
              IN  \A i \in 1..Len(stored) :
                      (/\ Len(prev) = Len(stored)
                       /\ prev[i].childrenHidden
                       /\ prev[i].name = stored[i].name
                       /\ prev[i].startPos = stored[i].startPos
                       /\ SizeOf(stored[i]) < SizeOf(prev[i])
                       /\ \A j \in 1..Len(prev) : j # i => Triple(prev[j]) # Triple(stored[i])) =>
                          ~stored[i].childrenHidden]_vars

\* the tree setComments stores when the text removeComment(c) has written is
\* parsed next
AfterRemoval(c) ==
    StoredTree(comments,
               findComments(c.file, RemovedText(vault[c.file], c), Pos(0), Undefined),
               FileName(c.file))

C24_LatestParseWins ==
    (Len(reads) >= 2 /\ AllDone) =>
        LET last == reads[Len(reads)]
        IN  Unhidden(comments[FileName(last.file)]) =
                findComments(last.file, last.content[1], Pos(0), Undefined)

(***************************************************************************)
(* Claims on the documents of a vault (SpecFolders)                        *)
(***************************************************************************)
\* the entry the view keeps for a document, if it keeps one
EntryOf(file) ==
    IF FileName(file) \in DOMAIN comments THEN Defined(comments[FileName(file)]) ELSE Undefined

\* C25 (as claimed): setComments for one document leaves the entry the view
\* keeps for any other document of the vault as it was, childrenHidden values
\* included, also for a document with the same file name in another folder.
C25_OtherEntriesUntouched ==
    [][\A f \in DOMAIN vault :
          updateComments(f) =>
              \A g \in DOMAIN vault \ {f} :
                  EntryOf(g) # Undefined => EntryOf(g)' = EntryOf(g)]_vars

(***************************************************************************)
(* Claims on the extraction after an insertion (SpecInsert)                *)
(***************************************************************************)
\* the shape of a tree: for every node, in order, the shape of its children
RECURSIVE ShapeOf(_)
ShapeOf(cs) == [i \in 1..Len(cs) |-> ShapeOf(cs[i].children)]

\* true iff the line belongs to the block of a top-level comment as a line
\* that is not its header: it starts with a marker and is no top-level header
InsideBlock(line) ==
    /\ line # <<>>
    /\ Head(line) = GT
    /\ ~(MarkerDepth(line) = 1 /\ Includes(line, <<"[", "!">>))

\* C26 (as claimed): addComment on the i-th top-level comment of a fresh parse
\* puts the three lines right after the last line of the block of the comment,
\* with and without a final line break, and the extraction of the new text has
\* the same top-level nodes, the i-th with one more child, appended last, and
\* every other node with the children it had.
C26_InsertAppendsOneChild ==
    [][\A i \in 1..Len(Rendered) :
          addComment(Rendered[i]) =>
              LET c    == Rendered[i]
                  old  == findComments(c.file, vault[c.file], Pos(0), Undefined)
                  new  == findComments(c.file, vault'[c.file], Pos(0), Undefined)
                  ls   == Split(vault'[c.file])
                  at   == InsertPosition(c) + 1
              IN  /\ InsideBlock(ls[at]) \/ at = c.startPos.line
                  /\ at + 3 < Len(ls) => ~InsideBlock(ls[at + 4])
                  /\ ShapeOf(new) =
                        [ShapeOf(old) EXCEPT ![i] = Append(ShapeOf(old)[i], <<>>)]]_vars

(***************************************************************************)
(* Claims on the button of the view header (SpecToggle)                    *)
(***************************************************************************)
\* every top-level comment with children is expanded
AllExpanded(cs) ==
    \A i \in 1..Len(cs) : Len(cs[i].children) > 0 => ~cs[i].childrenHidden

\* C27: toggleExpandAll expands every top-level comment with children when one
\* of them is collapsed and collapses every one of them otherwise; a top-level
\* comment without children and every nested comment keep their
\* childrenHidden, nothing else of a node changes, and a second toggle after
\* one from an all-expanded tree gives the all-expanded tree back.
C27_ToggleExpandAll ==
    [][\A n \in DOMAIN comments :
          toggleExpandAll(n) =>
              LET old == comments[n]
                  new == comments'[n]
                  collapsed == \E i \in 1..Len(old) :
                                  Len(old[i].children) > 0 /\ old[i].childrenHidden
              IN  /\ Len(new) = Len(old)
                  /\ \A i \in 1..Len(old) :
                        /\ new[i] = [old[i] EXCEPT !.childrenHidden = new[i].childrenHidden]
                        /\ IF Len(old[i].children) > 0
                           THEN new[i].childrenHidden = ~collapsed
                           ELSE new[i].childrenHidden = old[i].childrenHidden
                  /\ AllExpanded(old) => ToggledTree(new) = old]_vars

\* the button was used on a tree with two comments with children, one of them
\* collapsed: both are expanded and nothing else differs
C27_Witness ==
    /\ replaced # Undefined
    /\ Len(replaced[1]) = 2 /\ Len(Rendered) = 2
    /\ Len(replaced[1][1].children) > 0 /\ Len(replaced[1][2].children) > 0
    /\ replaced[1][1].childrenHidden /\ ~replaced[1][2].childrenHidden
    /\ ~Rendered[1].childrenHidden /\ ~Rendered[2].childrenHidden
    /\ Unhidden(replaced[1]) = Unhidden(Rendered)

=============================================================================
